---- MODULE Spec2Model ----
(***************************************************************************)
(* Payment-channel keeper of kava (internal/x/paychan/keeper.go).          *)
(*                                                                         *)
(* The keeper's state is the key/value store holding the marshalled        *)
(* Paychan records and the account ledger of the bank keeper.  Addresses   *)
(* are byte strings, store keys are byte strings built by paychanKey,      *)
(* amounts are sdk.Coins: sequences of (denom, amount) coins.  Denoms are  *)
(* numbered by their rank in string order, so that the string comparisons  *)
(* of sdk.Coins become integer comparisons.                                *)
(***************************************************************************)
EXTENDS Integers, Sequences, FiniteSets, TLC

VARIABLES
    store,    \* ctx.KVStore(k.storeKey): store key -> marshalled Paychan
    ledger,   \* the bank keeper's accounts: address -> sdk.Coins
    last,     \* the last keeper call and what it returned
    opened,   \* history: the Paychans of successful CreatePaychan calls not closed since
    live,     \* history: per (sender, receiver, id), the Paychan last stored and not closed
    enc       \* two (sender, receiver, id) and the store keys paychanKey gave them

vars == <<store, ledger, last, opened, live, enc>>

(***************************************************************************)
(* Bounds of the model.                                                    *)
(***************************************************************************)
MaxQty == 2        \* largest quantity of a coin in an input amount
InitFunds == 1     \* quantity of denom 1 the funded account starts with

\* Addresses: the empty address and two addresses of one byte ("A", "B").
Addresses == {<<>>, <<65>>, <<66>>}
\* Denoms, by rank in string order.
Denoms == {1, 2}
\* Ids passed to ClosePaychan and GetPaychan.
Ids == {-1, 0, 1}

Coin(d, q) == [denom |-> d, amount |-> q]
CoinInputs == {Coin(d, q) : d \in Denoms, q \in -1..MaxQty}
\* Input amounts: every sdk.Coins of at most two coins, valid or not.
Amounts == {<<>>} \cup {<<c>> : c \in CoinInputs}
                  \cup {<<c, d>> : c \in CoinInputs, d \in CoinInputs}

(***************************************************************************)
(* sdk.Coins, as the keeper uses it.                                       *)
(***************************************************************************)
\* Coins.IsValid: sorted by strictly increasing denom, no zero amount; the
\* first coin of a longer list is compared but its amount is not looked at.
IsValid(coins) ==
    IF Len(coins) = 0 THEN TRUE
    ELSE IF Len(coins) = 1 THEN coins[1].amount # 0
    ELSE \A i \in 2..Len(coins) :
            /\ coins[i].denom > coins[i - 1].denom
            /\ coins[i].amount # 0

\* Mutant of IsPositive: only the first coin is looked at.
IsPositive_m(coins) ==
    /\ Len(coins) # 0
    /\ coins[1].amount > 0

\* Coins.IsPositive: non-empty and every amount > 0.
IsPositive(coins) ==
    /\ Len(coins) # 0
    /\ \A i \in 1..Len(coins) : coins[i].amount > 0

\* Mutant of IsNotNegative: the comparison is the wrong way round.
IsNotNegative_m(coins) ==
    \A i \in 1..Len(coins) : coins[i].amount <= 0

\* Coins.IsNotNegative: every amount >= 0 (true of the empty list).
IsNotNegative(coins) ==
    \A i \in 1..Len(coins) : coins[i].amount >= 0

\* Coins.Negative
Negative(coins) ==
    [i \in 1..Len(coins) |-> Coin(coins[i].denom, -coins[i].amount)]

\* Coins.Plus: merge of two denom-sorted lists, a zero sum is dropped.
RECURSIVE Plus(_, _)
Plus(coinsA, coinsB) ==
    IF Len(coinsA) = 0 THEN coinsB
    ELSE IF Len(coinsB) = 0 THEN coinsA
    ELSE LET a == Head(coinsA)
             b == Head(coinsB)
         IN  IF a.denom < b.denom
                THEN <<a>> \o Plus(Tail(coinsA), coinsB)
             ELSE IF a.denom = b.denom
                THEN IF a.amount + b.amount = 0
                        THEN Plus(Tail(coinsA), Tail(coinsB))
                        ELSE <<Coin(a.denom, a.amount + b.amount)>>
                                \o Plus(Tail(coinsA), Tail(coinsB))
             ELSE <<b>> \o Plus(coinsA, Tail(coinsB))

\* Coins.Minus
Minus(coinsA, coinsB) == Plus(coinsA, Negative(coinsB))

(***************************************************************************)
(* The bank keeper (k.coinKeeper).                                         *)
(***************************************************************************)
\* coinKeeper.SubtractCoins: fails and writes nothing when a denom would go
\* negative, else sets the account's coins.
SubtractCoins(lg, addr, amt) ==
    LET newCoins == Minus(lg[addr], amt)
    IN  IF ~IsNotNegative(newCoins)
           THEN [err |-> "InsufficientFunds", ledger |-> lg]
           ELSE [err |-> "ok", ledger |-> [lg EXCEPT ![addr] = newCoins]]

\* coinKeeper.AddCoins; the keeper ignores its error.
AddCoins(lg, addr, amt) ==
    LET newCoins == Plus(lg[addr], amt)
    IN  IF ~IsNotNegative(newCoins) THEN lg
        ELSE [lg EXCEPT ![addr] = newCoins]

(***************************************************************************)
(* Store keys and the codec.                                               *)
(***************************************************************************)
\* strconv.Itoa, as bytes: decimal digits, '-' first for a negative number.
RECURSIVE Digits(_)
Digits(n) ==
    IF n < 10 THEN <<48 + n>>
    ELSE Digits(n \div 10) \o <<48 + (n % 10)>>

Itoa(n) == IF n < 0 THEN <<45>> \o Digits(-n) ELSE Digits(n)

\* Mutant of paychanKey: the sign of the id is lost.
paychanKey_m(sender, receiver, id) ==
    sender \o receiver \o Digits(IF id < 0 THEN -id ELSE id)

\* paychanKey: sender bytes, receiver bytes, decimal id.
paychanKey(sender, receiver, id) == sender \o receiver \o Itoa(id)

Paychan(sender, receiver, id, balance) ==
    [sender |-> sender, receiver |-> receiver, id |-> id, balance |-> balance]

\* var pych Paychan: the zero value.
ZeroPaychan == Paychan(<<>>, <<>>, 0, <<>>)

\* The fields of Paychan the codec can see.  The codec is in another package
\* and walks the struct by reflection, which gives it the exported fields
\* only; the four fields the keeper sets (sender, receiver, id, balance) are
\* unexported, so it sees none.
ExportedFields == {}

\* cdc.MustMarshalBinary: the encoding holds each exported field under its
\* name; for a Paychan it holds no field, whatever the Paychan.
MustMarshalBinary(pych) == [f \in ExportedFields |-> pych[f]]

\* cdc.MustUnmarshalBinary into var pych Paychan: the fields the encoding
\* holds are set, the others keep their zero value.
MustUnmarshalBinary(bz) ==
    [f \in DOMAIN ZeroPaychan |-> IF f \in DOMAIN bz THEN bz[f] ELSE ZeroPaychan[f]]

\* store.Set
StoreSet(st, key, bz) ==
    [k \in DOMAIN st \cup {key} |-> IF k = key THEN bz ELSE st[k]]

\* store.Delete
StoreDelete(st, key) == [k \in DOMAIN st \ {key} |-> st[k]]

(***************************************************************************)
(* The keeper.                                                             *)
(***************************************************************************)
\* Keeper.GetPaychan
GetPaychan(st, sender, receiver, id) ==
    LET key == paychanKey(sender, receiver, id)
    IN  IF key \notin DOMAIN st
           THEN [pych |-> ZeroPaychan, found |-> FALSE]
           ELSE [pych |-> MustUnmarshalBinary(st[key]), found |-> TRUE]

\* Keeper.setPaychan
setPaychan(st, pych) ==
    StoreSet(st, paychanKey(pych.sender, pych.receiver, pych.id),
             MustMarshalBinary(pych))

\* Keeper.GetPaychans: not implemented, returns the nil slice.
GetPaychans(sender, receiver) == <<>>

Result(err, st, lg, id) == [err |-> err, store |-> st, ledger |-> lg, id |-> id]

\* Mutant of CreatePaychan: the amount is validated before the addresses.
CreatePaychan_order_m(st, lg, sender, receiver, amount) ==
    IF Len(amount) = 0 THEN Result("InvalidCoins", st, lg, 0)
    ELSE IF ~IsValid(amount) THEN Result("InvalidCoins", st, lg, 0)
    ELSE IF ~IsPositive(amount) THEN Result("InvalidCoins", st, lg, 0)
    ELSE IF Len(sender) = 0 THEN Result("InvalidAddress", st, lg, 0)
    ELSE IF Len(receiver) = 0 THEN Result("InvalidAddress", st, lg, 0)
    ELSE LET id  == Len(GetPaychans(sender, receiver)) + 1
             sub == SubtractCoins(lg, sender, amount)
         IN  IF sub.err # "ok" THEN Result(sub.err, st, lg, 0)
             ELSE Result("ok",
                         setPaychan(st, Paychan(sender, receiver, id, amount)),
                         sub.ledger, id)

\* Mutant of CreatePaychan: the Paychan is saved before the error of
\* SubtractCoins is looked at.
CreatePaychan_m(st, lg, sender, receiver, amount) ==
    IF Len(sender) = 0 THEN Result("InvalidAddress", st, lg, 0)
    ELSE IF Len(receiver) = 0 THEN Result("InvalidAddress", st, lg, 0)
    ELSE IF Len(amount) = 0 THEN Result("InvalidCoins", st, lg, 0)
    ELSE IF ~IsValid(amount) THEN Result("InvalidCoins", st, lg, 0)
    ELSE IF ~IsPositive(amount) THEN Result("InvalidCoins", st, lg, 0)
    ELSE LET id    == Len(GetPaychans(sender, receiver)) + 1
             sub   == SubtractCoins(lg, sender, amount)
             saved == setPaychan(st, Paychan(sender, receiver, id, amount))
         IN  IF sub.err # "ok" THEN Result(sub.err, saved, lg, 0)
             ELSE Result("ok", saved, sub.ledger, id)

\* Keeper.CreatePaychan, as a function of the state it runs in.
CreatePaychan(st, lg, sender, receiver, amount) ==
    IF Len(sender) = 0 THEN Result("InvalidAddress", st, lg, 0)
    ELSE IF Len(receiver) = 0 THEN Result("InvalidAddress", st, lg, 0)
    ELSE IF Len(amount) = 0 THEN Result("InvalidCoins", st, lg, 0)
    ELSE IF ~IsValid(amount) THEN Result("InvalidCoins", st, lg, 0)
    ELSE IF ~IsPositive(amount) THEN Result("InvalidCoins", st, lg, 0)
    ELSE LET id  == Len(GetPaychans(sender, receiver)) + 1
             sub == SubtractCoins(lg, sender, amount)
         IN  IF sub.err # "ok" THEN Result(sub.err, st, lg, 0)
             ELSE Result("ok",
                         setPaychan(st, Paychan(sender, receiver, id, amount)),
                         sub.ledger, id)

\* Mutant of ClosePaychan: the id is checked after the whole of the amount.
ClosePaychan_order_m(st, lg, sender, receiver, id, receiverAmount) ==
    IF Len(sender) = 0 THEN Result("InvalidAddress", st, lg, id)
    ELSE IF Len(receiver) = 0 THEN Result("InvalidAddress", st, lg, id)
    ELSE IF Len(receiverAmount) = 0 THEN Result("InvalidCoins", st, lg, id)
    ELSE IF ~IsValid(receiverAmount) THEN Result("InvalidCoins", st, lg, id)
    ELSE IF ~IsPositive(receiverAmount) THEN Result("InvalidCoins", st, lg, id)
    ELSE IF id < 0 THEN Result("InvalidAddress", st, lg, id)
    ELSE LET got == GetPaychan(st, sender, receiver, id)
         IN  IF ~got.found THEN Result("UnknownAddress", st, lg, id)
             ELSE LET pych == got.pych
                      senderAmount == Minus(pych.balance, receiverAmount)
                  IN  IF ~IsNotNegative(senderAmount)
                         THEN Result("InsufficientFunds", st, lg, id)
                         ELSE Result("ok",
                                     StoreDelete(st, paychanKey(pych.sender,
                                                                pych.receiver,
                                                                pych.id)),
                                     AddCoins(AddCoins(lg, sender, senderAmount),
                                              receiver, receiverAmount),
                                     id)

\* Mutant of ClosePaychan: the receiver is credited before the split is
\* checked against the balance.
ClosePaychan_credit_m(st, lg, sender, receiver, id, receiverAmount) ==
    IF Len(sender) = 0 THEN Result("InvalidAddress", st, lg, id)
    ELSE IF Len(receiver) = 0 THEN Result("InvalidAddress", st, lg, id)
    ELSE IF Len(receiverAmount) = 0 THEN Result("InvalidCoins", st, lg, id)
    ELSE IF id < 0 THEN Result("InvalidAddress", st, lg, id)
    ELSE IF ~IsValid(receiverAmount) THEN Result("InvalidCoins", st, lg, id)
    ELSE IF ~IsPositive(receiverAmount) THEN Result("InvalidCoins", st, lg, id)
    ELSE LET got == GetPaychan(st, sender, receiver, id)
         IN  IF ~got.found THEN Result("UnknownAddress", st, lg, id)
             ELSE LET pych == got.pych
                      senderAmount == Minus(pych.balance, receiverAmount)
                      paid == AddCoins(lg, receiver, receiverAmount)
                  IN  IF ~IsNotNegative(senderAmount)
                         THEN Result("InsufficientFunds", st, paid, id)
                         ELSE Result("ok",
                                     StoreDelete(st, paychanKey(pych.sender,
                                                                pych.receiver,
                                                                pych.id)),
                                     AddCoins(paid, sender, senderAmount),
                                     id)

\* Keeper.ClosePaychan, as a function of the state it runs in.
ClosePaychan(st, lg, sender, receiver, id, receiverAmount) ==
    IF Len(sender) = 0 THEN Result("InvalidAddress", st, lg, id)
    ELSE IF Len(receiver) = 0 THEN Result("InvalidAddress", st, lg, id)
    ELSE IF Len(receiverAmount) = 0 THEN Result("InvalidCoins", st, lg, id)
    ELSE IF id < 0 THEN Result("InvalidAddress", st, lg, id)
    ELSE IF ~IsValid(receiverAmount) THEN Result("InvalidCoins", st, lg, id)
    ELSE IF ~IsPositive(receiverAmount) THEN Result("InvalidCoins", st, lg, id)
    ELSE LET got == GetPaychan(st, sender, receiver, id)
         IN  IF ~got.found THEN Result("UnknownAddress", st, lg, id)
             ELSE LET pych == got.pych
                      senderAmount == Minus(pych.balance, receiverAmount)
                  IN  IF ~IsNotNegative(senderAmount)
                         THEN Result("InsufficientFunds", st, lg, id)
                         ELSE Result("ok",
                                     StoreDelete(st, paychanKey(pych.sender,
                                                                pych.receiver,
                                                                pych.id)),
                                     AddCoins(AddCoins(lg, sender, senderAmount),
                                              receiver, receiverAmount),
                                     id)

(***************************************************************************)
(* The state machine: one action per keeper call.  A call runs to its end  *)
(* before the next one starts (the transactions are serialized).           *)
(***************************************************************************)
\* The coins of the funded account: InitFunds of denom 1, one coin of denom 2.
InitCoins == <<Coin(1, InitFunds), Coin(2, 1)>>

NoCall == [op |-> "none", err |-> "ok", sender |-> <<>>, receiver |-> <<>>,
           id |-> 0, amount |-> <<>>]

\* The record of a call: its arguments when it succeeded, its operation and
\* error alone when it returned an error.
Call(op, err, sender, receiver, id, amount) ==
    IF err = "ok"
       THEN [op |-> op, err |-> err, sender |-> sender, receiver |-> receiver,
             id |-> id, amount |-> amount]
       ELSE [NoCall EXCEPT !.op = op, !.err = err]

SameKey(p, sender, receiver, id) ==
    p.sender = sender /\ p.receiver = receiver /\ p.id = id

\* No key has been asked for.
NoEnc == [a |-> <<<<>>, <<>>, 0>>, b |-> <<<<>>, <<>>, 0>>,
          ka |-> <<>>, kb |-> <<>>, done |-> FALSE]

\* NewKeeper over an empty store; account "A" is funded, the others are not.
Init ==
    /\ store = <<>>
    /\ ledger = [a \in Addresses |-> IF a = <<65>> THEN InitCoins ELSE <<>>]
    /\ last = NoCall
    /\ opened = {}
    /\ live = {}
    /\ enc = NoEnc

Create(sender, receiver, amount) ==
    LET res == CreatePaychan(store, ledger, sender, receiver, amount)
        new == Paychan(sender, receiver, res.id, amount)
    IN  /\ store' = res.store
        /\ ledger' = res.ledger
        /\ last' = Call("create", res.err, sender, receiver, res.id, amount)
        /\ IF res.err = "ok"
              THEN /\ opened' = opened \cup {new}
                   /\ live' = {p \in live : ~SameKey(p, sender, receiver, res.id)}
                                 \cup {new}
              ELSE UNCHANGED <<opened, live>>
        /\ UNCHANGED enc

Close(sender, receiver, id, receiverAmount) ==
    LET res == ClosePaychan(store, ledger, sender, receiver, id, receiverAmount)
    IN  /\ store' = res.store
        /\ ledger' = res.ledger
        /\ last' = Call("close", res.err, sender, receiver, id, receiverAmount)
        /\ IF res.err = "ok"
              THEN /\ opened' = {p \in opened : ~SameKey(p, sender, receiver, id)}
                   /\ live' = {p \in live : ~SameKey(p, sender, receiver, id)}
              ELSE UNCHANGED <<opened, live>>
        /\ UNCHANGED enc

\* A lookup: the Paychan it returned is recorded when it was found.
Get(sender, receiver, id) ==
    LET got == GetPaychan(store, sender, receiver, id)
    IN  /\ last' = Call("get", IF got.found THEN "ok" ELSE "notfound",
                        got.pych.sender, got.pych.receiver, got.pych.id,
                        got.pych.balance)
        /\ UNCHANGED <<store, ledger, opened, live, enc>>

\* An enumeration: the number of Paychans it returned is recorded.
List(sender, receiver) ==
    /\ last' = [NoCall EXCEPT !.op = "list",
                              !.id = Len(GetPaychans(sender, receiver))]
    /\ UNCHANGED <<store, ledger, opened, live, enc>>

Next ==
    \/ \E s \in Addresses, r \in Addresses, a \in Amounts : Create(s, r, a)
    \/ \E s \in Addresses, r \in Addresses, i \in Ids, a \in Amounts :
          Close(s, r, i, a)
    \/ \E s \in Addresses, r \in Addresses, i \in Ids : Get(s, r, i)
    \/ \E s \in Addresses, r \in Addresses : List(s, r)

Spec == Init /\ [][Next]_vars

(***************************************************************************)
(* The key encoder on its own: two (sender, receiver, id) are drawn, with  *)
(* addresses of zero to two bytes that may be digits, and paychanKey is    *)
(* applied to both.                                                        *)
(***************************************************************************)
\* Address bytes: the letter "A" and the digit "1".
KeyBytes == {65, 49}
KeyAddresses == {<<>>} \cup {<<x>> : x \in KeyBytes}
                       \cup {<<x, y>> : x \in KeyBytes, y \in KeyBytes}
KeyIds == {-1, 1, 11}
KeyTriples == KeyAddresses \X KeyAddresses \X KeyIds

KeyInit ==
    /\ store = <<>>
    /\ ledger = [a \in Addresses |-> IF a = <<65>> THEN InitCoins ELSE <<>>]
    /\ last = NoCall
    /\ opened = {}
    /\ live = {}
    /\ enc \in [a : KeyTriples, b : KeyTriples, ka : {<<>>}, kb : {<<>>},
                done : {FALSE}]

Encode ==
    /\ ~enc.done
    /\ enc' = [enc EXCEPT !.ka = paychanKey(enc.a[1], enc.a[2], enc.a[3]),
                          !.kb = paychanKey(enc.b[1], enc.b[2], enc.b[3]),
                          !.done = TRUE]
    /\ UNCHANGED <<store, ledger, last, opened, live>>

KeyNext == Encode

SpecKey == KeyInit /\ [][KeyNext]_vars

(***************************************************************************)
(* Notions the properties are stated with, independent of the keeper's     *)
(* own checks.                                                             *)
(***************************************************************************)
\* The quantity of denom d in a coin list.
RECURSIVE Qty(_, _)
Qty(coins, d) ==
    IF Len(coins) = 0 THEN 0
    ELSE (IF Head(coins).denom = d THEN Head(coins).amount ELSE 0)
            + Qty(Tail(coins), d)

\* An amount no call may accept: empty, a zero or negative quantity, or denoms
\* duplicated or out of order.
BadAmount(amt) ==
    \/ Len(amt) = 0
    \/ \E i \in 1..Len(amt) : amt[i].amount <= 0
    \/ \E i \in 1..Len(amt), j \in 1..Len(amt) :
          i < j /\ amt[i].denom >= amt[j].denom

\* amt is more than coins holds, in some denom.
Exceeds(amt, coins) == \E d \in Denoms : Qty(amt, d) > Qty(coins, d)

\* The Paychan records in the store, as the keeper reads them.
Records == {MustUnmarshalBinary(store[k]) : k \in DOMAIN store}

RECURSIVE SumQty(_, _)
SumQty(S, d) ==
    IF S = {} THEN 0
    ELSE LET x == CHOOSE y \in S : TRUE
         IN  Qty(x[2], d) + SumQty(S \ {x}, d)

\* All the funds of denom d: in the accounts and locked in the store's records.
TotalQty(d) ==
    SumQty({<<a, ledger[a]>> : a \in Addresses}, d)
        + SumQty({<<k, MustUnmarshalBinary(store[k]).balance>> : k \in DOMAIN store}, d)

\* A result that is an error and changed nothing.
Rejected(res) == res.err # "ok" /\ res.store = store /\ res.ledger = ledger

Created == last'.op = "create" /\ last'.err = "ok"
Closed == last'.op = "close" /\ last'.err = "ok"

(***************************************************************************)
(* C1 - Id uniqueness per pair: a successful CreatePaychan never produces  *)
(* the id of a channel an earlier successful CreatePaychan produced for    *)
(* the same (sender, receiver); stated over the earlier channels of the    *)
(* pair not closed since.  The code violates it.                           *)
(***************************************************************************)
C1_IdUnique ==
    [][Created =>
          \A p \in opened :
             (p.sender = last'.sender /\ p.receiver = last'.receiver)
                => p.id # last'.id]_vars

(***************************************************************************)
(* C2 - Conservation: when a channel created with amount is closed with    *)
(* receiverAmount, senderAmount = amount - receiverAmount is not negative  *)
(* in any denom, and the close credits senderAmount to the sender and      *)
(* receiverAmount to the receiver and changes no other account.  No        *)
(* ClosePaychan of the code succeeds, so no step is a case of it.          *)
(***************************************************************************)
C2_Conservation ==
    [][Closed =>
          \A p \in opened :
             SameKey(p, last'.sender, last'.receiver, last'.id) =>
                \A d \in Denoms :
                   LET receiverQty == Qty(last'.amount, d)
                       senderQty   == Qty(p.balance, d) - receiverQty
                   IN  /\ senderQty >= 0
                       /\ \A a \in Addresses :
                             Qty(ledger'[a], d) - Qty(ledger[a], d)
                                = (IF a = last'.sender THEN senderQty ELSE 0)
                                   + (IF a = last'.receiver THEN receiverQty ELSE 0)]_vars

(***************************************************************************)
(* C3 - No operation creates or destroys funds: in every reachable state   *)
(* the account balances plus the balances of the channel records in the    *)
(* store add up, per denom, to what there was at the start.  The code      *)
(* violates it: the record a CreatePaychan stores holds no balance.        *)
(***************************************************************************)
C3_TotalValue == \A d \in Denoms : TotalQty(d) = Qty(InitCoins, d)

(***************************************************************************)
(* C4 - Exactly-once close: in the state a successful ClosePaychan leaves, *)
(* a ClosePaychan of the same (sender, receiver, id) with any well-formed  *)
(* receiverAmount returns the not-found error (sdk.ErrUnknownAddress) and  *)
(* changes neither the accounts nor the store.  No ClosePaychan of the     *)
(* code succeeds, so no state is a case of it.                             *)
(***************************************************************************)
C4_ExactlyOnceClose ==
    (last.op = "close" /\ last.err = "ok") =>
       \A ra \in Amounts :
          ~BadAmount(ra) =>
             LET res == ClosePaychan(store, ledger, last.sender, last.receiver,
                                     last.id, ra)
             IN  res.err = "UnknownAddress" /\ Rejected(res)

(***************************************************************************)
(* C5 - Non-negativity: for every open channel, a ClosePaychan whose       *)
(* receiverAmount exceeds the channel's balance in some denom (a denom the *)
(* balance lacks included) never succeeds and changes nothing; when its    *)
(* receiverAmount is well-formed it returns InsufficientFunds.             *)
(***************************************************************************)
C5_NoOverdraw ==
    \A p \in live : \A ra \in Amounts :
       Exceeds(ra, p.balance) =>
          LET res == ClosePaychan(store, ledger, p.sender, p.receiver, p.id, ra)
          IN  /\ Rejected(res)
              /\ ~BadAmount(ra) => res.err = "InsufficientFunds"

\* A close was refused for want of funds in the channel, which is still open,
\* and a receiverAmount of a denom the channel lacks would be refused too.
C5_Witness ==
    /\ last.op = "close" /\ last.err = "InsufficientFunds"
    /\ \E p \in live, ra \in Amounts :
          /\ ~BadAmount(ra) /\ Exceeds(ra, p.balance)
          /\ \E d \in Denoms : Qty(ra, d) > 0 /\ Qty(p.balance, d) = 0

(***************************************************************************)
(* C6 - Rejection of malformed input: CreatePaychan and ClosePaychan with  *)
(* an empty sender or receiver, or an empty or non-canonical amount, and   *)
(* ClosePaychan with a negative id, return an error and change neither the *)
(* accounts nor the store.                                                 *)
(***************************************************************************)
C6_RejectMalformed ==
    \A s \in Addresses, r \in Addresses, a \in Amounts :
       /\ (Len(s) = 0 \/ Len(r) = 0 \/ BadAmount(a))
             => Rejected(CreatePaychan(store, ledger, s, r, a))
       /\ \A i \in Ids :
             (Len(s) = 0 \/ Len(r) = 0 \/ BadAmount(a) \/ i < 0)
                => Rejected(ClosePaychan(store, ledger, s, r, i, a))

\* A malformed call was refused while a channel was open.
C6_Witness ==
    /\ last.op \in {"create", "close"}
    /\ last.err \in {"InvalidAddress", "InvalidCoins"}
    /\ live # {}

(***************************************************************************)
(* C7 - Lookup correctness: in every reachable state GetPaychan finds      *)
(* nothing under a (sender, receiver, id) never stored or closed since,    *)
(* and else returns exactly the Paychan last stored under it; a lookup     *)
(* changes neither the store nor the accounts (GetPaychan has no store or  *)
(* account to change: it is a value computed from the store).  The code    *)
(* violates it: what it returns for a stored key has none of the fields    *)
(* that were stored.                                                       *)
(***************************************************************************)
C7_Lookup ==
    \A s \in Addresses, r \in Addresses, i \in Ids :
       LET got    == GetPaychan(store, s, r, i)
           stored == {p \in live : SameKey(p, s, r, i)}
       IN  IF stored = {}
              THEN ~got.found /\ got.pych = ZeroPaychan
              ELSE got.found /\ stored = {got.pych}

(***************************************************************************)
(* C8 - Enumeration: GetPaychans(sender, receiver) returns exactly the     *)
(* Paychans stored for that pair and not closed since.  The code violates  *)
(* it.                                                                     *)
(***************************************************************************)
C8_ListExact ==
    \A s \in Addresses, r \in Addresses :
       LET listed == GetPaychans(s, r)
       IN  {listed[i] : i \in 1..Len(listed)}
              = {p \in live : p.sender = s /\ p.receiver = r}

(***************************************************************************)
(* C9 - A CreatePaychan with well-formed arguments whose amount exceeds    *)
(* the sender's account in some denom returns InsufficientFunds, stores no *)
(* record and changes no account.                                          *)
(***************************************************************************)
C9_CreateInsufficient ==
    \A s \in Addresses, r \in Addresses, a \in Amounts :
       (Len(s) # 0 /\ Len(r) # 0 /\ ~BadAmount(a) /\ Exceeds(a, ledger[s])) =>
          LET res == CreatePaychan(store, ledger, s, r, a)
          IN  res.err = "InsufficientFunds" /\ Rejected(res)

\* A create was refused for want of funds.
C9_Witness == last.op = "create" /\ last.err = "InsufficientFunds"

(***************************************************************************)
(* C10 - Effect of a successful CreatePaychan(sender, receiver, amount):   *)
(* the sender's account goes down by exactly amount in every denom, no     *)
(* other account changes, GetPaychan(sender, receiver, id) then returns    *)
(* Paychan{sender, receiver, id, amount}, and no record under another      *)
(* store key is added, removed or changed.  The code violates it: the     *)
(* Paychan GetPaychan then returns has none of the four fields.            *)
(***************************************************************************)
C10_CreateEffect ==
    [][Created =>
          LET key == paychanKey(last'.sender, last'.receiver, last'.id)
          IN  /\ \A d \in Denoms :
                    Qty(ledger'[last'.sender], d)
                       = Qty(ledger[last'.sender], d) - Qty(last'.amount, d)
              /\ \A a \in Addresses \ {last'.sender} : ledger'[a] = ledger[a]
              /\ GetPaychan(store', last'.sender, last'.receiver, last'.id)
                    = [pych  |-> Paychan(last'.sender, last'.receiver,
                                         last'.id, last'.amount),
                       found |-> TRUE]
              /\ DOMAIN store' \ {key} = DOMAIN store \ {key}
              /\ \A k \in DOMAIN store \ {key} : store'[k] = store[k]]_vars

(***************************************************************************)
(* C11 - Per store key the only transitions are Absent -> Open, by a       *)
(* successful CreatePaychan, and Open -> Absent, by a successful           *)
(* ClosePaychan: a successful CreatePaychan writes only to a key that      *)
(* holds no record, and no step changes the record of a key that stays in  *)
(* the store.  The code violates it.                                       *)
(***************************************************************************)
C11_KeyLifecycle ==
    [][/\ Created =>
             paychanKey(last'.sender, last'.receiver, last'.id) \notin DOMAIN store
       /\ \A k \in DOMAIN store \cap DOMAIN store' : store'[k] = store[k]
       /\ \A k \in DOMAIN store' \ DOMAIN store : Created
       /\ \A k \in DOMAIN store \ DOMAIN store' : Closed]_vars

(***************************************************************************)
(* C12 - A ClosePaychan with non-empty addresses, a well-formed            *)
(* receiverAmount and id < 0 fails with an error kind of its own: not the  *)
(* invalid-address, invalid-amount or not-found kind.  The code violates   *)
(* it.                                                                     *)
(***************************************************************************)
C12_InvalidChannelId ==
    \A s \in Addresses, r \in Addresses, i \in Ids, ra \in Amounts :
       (Len(s) # 0 /\ Len(r) # 0 /\ ~BadAmount(ra) /\ i < 0) =>
          LET res == ClosePaychan(store, ledger, s, r, i, ra)
          IN  /\ res.err # "ok"
              /\ res.err \notin {"InvalidAddress", "InvalidCoins", "UnknownAddress"}

(***************************************************************************)
(* C13 - In every reachable state the balance of every Paychan record in   *)
(* the store is a valid amount: non-empty, no denom twice, every quantity  *)
(* greater than zero.  The code violates it: the balance of the record a   *)
(* CreatePaychan stores reads back empty.                                  *)
(***************************************************************************)
C13_BalanceValid == \A p \in Records : ~BadAmount(p.balance)

(***************************************************************************)
(* C14 - CreatePaychan reports its first failing check, in the order       *)
(* sender, receiver, amount: an empty sender gives InvalidAddress whatever *)
(* the receiver and the amount, an empty receiver gives InvalidAddress     *)
(* whatever the amount, a bad amount with both addresses non-empty gives   *)
(* InvalidCoins, and InsufficientFunds is returned only for well-formed    *)
(* arguments.                                                              *)
(***************************************************************************)
C14_CreateOrder ==
    \A s \in Addresses, r \in Addresses, a \in Amounts :
       LET err == CreatePaychan(store, ledger, s, r, a).err
       IN  IF Len(s) = 0 \/ Len(r) = 0 THEN err = "InvalidAddress"
           ELSE IF BadAmount(a) THEN err = "InvalidCoins"
           ELSE IF Exceeds(a, ledger[s]) THEN err = "InsufficientFunds"
           ELSE err = "ok"

\* A create was refused for its amount in a state where its sender could not
\* have paid either.
C14_Witness ==
    /\ last.op = "create" /\ last.err = "InvalidCoins"
    /\ \A a \in Addresses : ledger[a] = <<>>

(***************************************************************************)
(* C15 - ClosePaychan reports its first failing precondition.  As claimed, *)
(* in the order addresses, receiverAmount, id, existence, balance: so a    *)
(* call with non-empty addresses and a bad receiverAmount fails with       *)
(* InvalidCoins whatever its id (C15_SpecOrder; the code violates it).     *)
(* As amended, in the order addresses, receiverAmount non-empty, id >= 0,  *)
(* receiverAmount canonical and positive, existence, balance               *)
(* (C15_CloseOrder); what a call returns when none of these fails is not   *)
(* part of it.                                                             *)
(***************************************************************************)
C15_SpecOrder ==
    \A s \in Addresses, r \in Addresses, i \in Ids, ra \in Amounts :
       (Len(s) # 0 /\ Len(r) # 0 /\ BadAmount(ra)) =>
          ClosePaychan(store, ledger, s, r, i, ra).err = "InvalidCoins"

C15_CloseOrder ==
    \A s \in Addresses, r \in Addresses, i \in Ids, ra \in Amounts :
       LET err  == ClosePaychan(store, ledger, s, r, i, ra).err
           open == {p \in live : SameKey(p, s, r, i)}
       IN  IF Len(s) = 0 \/ Len(r) = 0 THEN err = "InvalidAddress"
           ELSE IF Len(ra) = 0 THEN err = "InvalidCoins"
           ELSE IF i < 0 THEN err = "InvalidAddress"
           ELSE IF BadAmount(ra) THEN err = "InvalidCoins"
           ELSE IF open = {} THEN err = "UnknownAddress"
           ELSE (\E p \in open : Exceeds(ra, p.balance))
                   => err = "InsufficientFunds"

\* A close was refused by the id check while a channel was open that a
\* close can ask too much of.
C15_Witness ==
    /\ last.op = "close" /\ last.err = "InvalidAddress"
    /\ \E p \in live, ra \in Amounts : ~BadAmount(ra) /\ Exceeds(ra, p.balance)

(***************************************************************************)
(* C16 - The key encoder is injective on addresses of one common length:   *)
(* when the senders and receivers of two (sender, receiver, id) all have   *)
(* the same number of bytes and paychanKey gives both the same key, the    *)
(* two are equal.                                                          *)
(***************************************************************************)
CommonLength ==
    \E n \in 0..2 : \A t \in {enc.a, enc.b} : Len(t[1]) = n /\ Len(t[2]) = n

C16_KeyInjective ==
    (enc.done /\ CommonLength /\ enc.ka = enc.kb) => enc.a = enc.b

\* Two different triples over two-byte addresses that end in a digit, the
\* ids 1 and 11, with different keys.
C16_Witness ==
    /\ enc.done /\ CommonLength
    /\ Len(enc.a[1]) = 2
    /\ enc.a[1] = enc.b[1] /\ enc.a[2] = enc.b[2] /\ enc.a[2][2] = 49
    /\ enc.a[3] = 1 /\ enc.b[3] = 11
    /\ enc.ka # enc.kb

(***************************************************************************)
(* C17 - Every ClosePaychan that returns an error, the not-found and the   *)
(* insufficient-funds error included, leaves the accounts and the store    *)
(* as they were; a ClosePaychan that succeeds does all three of: credit    *)
(* the sender balance - receiverAmount, credit the receiver                *)
(* receiverAmount, delete the record (and nothing else).  Every            *)
(* ClosePaychan of the code returns an error, so the first half is the     *)
(* one the reachable states exercise.                                      *)
(***************************************************************************)
C17_CloseAllOrNothing ==
    \A s \in Addresses, r \in Addresses, i \in Ids, ra \in Amounts :
       LET res == ClosePaychan(store, ledger, s, r, i, ra)
           key == paychanKey(s, r, i)
       IN  IF res.err # "ok"
              THEN res.store = store /\ res.ledger = ledger
              ELSE \E p \in live :
                      /\ SameKey(p, s, r, i)
                      /\ key \in DOMAIN store
                      /\ DOMAIN res.store = DOMAIN store \ {key}
                      /\ \A k \in DOMAIN res.store : res.store[k] = store[k]
                      /\ \A d \in Denoms, a \in Addresses :
                            Qty(res.ledger[a], d) - Qty(ledger[a], d)
                               = (IF a = s THEN Qty(p.balance, d) - Qty(ra, d) ELSE 0)
                                  + (IF a = r THEN Qty(ra, d) ELSE 0)

\* A close found no channel under its key while another channel was open,
\* whose close is refused for want of funds.
C17_Witness ==
    /\ last.op = "close" /\ last.err = "UnknownAddress"
    /\ \E p \in live :
          ClosePaychan(store, ledger, p.sender, p.receiver, p.id, p.balance).err
             = "InsufficientFunds"

(***************************************************************************)
(* C18 - Every open channel can be settled: in every reachable state, for  *)
(* every channel stored and not closed since, ClosePaychan with            *)
(* receiverAmount equal to the whole balance succeeds, credits the         *)
(* receiver the balance and the sender nothing, and leaves the store with  *)
(* that record gone and the others kept (so the store can always be        *)
(* emptied, one close after the other).  The code violates it: the close   *)
(* is refused for want of funds.  (That no successful ClosePaychan gives   *)
(* the receiver nothing is then true of the code for want of a successful  *)
(* ClosePaychan.)                                                          *)
(***************************************************************************)
C18_AlwaysSettleable ==
    \A p \in live :
       LET res == ClosePaychan(store, ledger, p.sender, p.receiver, p.id, p.balance)
           key == paychanKey(p.sender, p.receiver, p.id)
       IN  /\ res.err = "ok"
           /\ key \in DOMAIN store
           /\ DOMAIN res.store = DOMAIN store \ {key}
           /\ \A k \in DOMAIN res.store : res.store[k] = store[k]
           /\ \A d \in Denoms, a \in Addresses :
                 Qty(res.ledger[a], d) - Qty(ledger[a], d)
                    = (IF a = p.receiver THEN Qty(p.balance, d) ELSE 0)

====
